---- MODULE Spec2Model ----
(***************************************************************************)
(* A model of auto-translate.py: the Translator client (token, session,    *)
(* cached languages), the placeholder masking functions, and the catalog   *)
(* walk of createps / process.                                             *)
(*                                                                         *)
(* Python values are modelled as sequences.  A text is a sequence of       *)
(* fragments (plain words, placeholders, sentinels); "" is <<>>.  None is  *)
(* the one-element sequence <<"None">>.  Time is counted in whole minutes. *)
(***************************************************************************)
EXTENDS Integers, Sequences, FiniteSets, TLC

\* ---------------------------------------------------------------- bounds
MaxFiles == 2
MaxEntries == 2
MaxLatency == 6
MaxTime == 12
MaxOps == 4
MaxLen == 3

\* ------------------------------------------------------ program constants
RenewalMinutes == 8
ValidityMinutes == 10

\* ------------------------------------------------------- Python values
None == <<"None">>
Truthy(v) == v # None /\ v # <<>>
NoError == "NoError"
Token(t) == <<"token", t>>
Str(s) == [type |-> "str", val |-> s]
List(l) == [type |-> "list", val |-> l]
startswith(s, prefix) == Len(s) > 0 /\ s[1] = prefix

\* -------------------------------------------------- placeholder guard
SENTINEL == "|^^|"
LEGACY == "| ^ ^ |"
Placeholders == {"%(name)s", "{{n}}"}
match_re(frag) == frag \in Placeholders
findall(s) == SelectSeq(s, match_re)

Find(s, old) ==
    IF \E i \in 1..Len(s) : s[i] = old
    THEN CHOOSE i \in 1..Len(s) : s[i] = old /\ \A j \in 1..(i - 1) : s[j] # old
    ELSE 0

\* str.replace(old, new, 1): the first occurrence only
replace1(s, old, new) ==
    LET i == Find(s, old)
    IN  IF i = 0 THEN s
        ELSE SubSeq(s, 1, i - 1) \o <<new>> \o SubSeq(s, i + 1, Len(s))

RECURSIVE first_pass(_, _)
first_pass(items, thestring) ==
    IF items = <<>> THEN thestring
    ELSE first_pass(Tail(items), replace1(thestring, Head(items), SENTINEL))

RECURSIVE second_pass(_, _)
second_pass(items, thestring) ==
    IF items = <<>> THEN thestring
    ELSE second_pass(Tail(items),
                     replace1(replace1(thestring, SENTINEL, Head(items)),
                              LEGACY, Head(items)))

\* ------------------------------------------------------------ remote API
oauth_url == "OAuth2-13"
lang_url == "GetLanguagesForTranslate"
translate_url == "Translate"
translate_array_url == "TranslateArray"

ErrorPrefixes == {"ArgumentOutOfRangeException", "TranslateApiException",
                  "ArgumentException"}
TranslateKinds == {"ok", "legacy", "empty"} \cup ErrorPrefixes
\* The answers drawn in the catalog walk: a translation or an in-band error.
WalkKinds == {"ok", "legacy"} \cup ErrorPrefixes
\* A request is answered at once, or after a stall of MaxLatency minutes.
Latency == {0, MaxLatency}

Dict(frag) ==
    CASE frag = "Save" -> "Enregistrer"
      [] frag = "Hi" -> "Salut"
      [] frag = "Files" -> "Fichiers"
      [] frag = "files" -> "fichiers"
      [] OTHER -> frag

Garble(frag) == IF frag = SENTINEL THEN LEGACY ELSE Dict(frag)

\* The body the service answers a GET with: an in-band error string, the
\* language list, or the translated text (sentinels kept, or re-spaced).
Respond(url, text, kind, langs) ==
    IF kind \in ErrorPrefixes THEN Str(<<kind, ": message">>)
    ELSE IF url = lang_url THEN List(langs)
    ELSE IF url = translate_array_url
    THEN List([i \in 1..Len(text) |->
                  [j \in 1..Len(text[i]) |-> Dict(text[i][j])]])
    ELSE IF kind = "empty" THEN Str(<<>>)
    ELSE IF kind = "legacy" THEN Str([i \in 1..Len(text) |-> Garble(text[i])])
    ELSE Str([i \in 1..Len(text) |-> Dict(text[i])])

\* ------------------------------------------------------------ Translator
Translator == [access_token |-> None, session |-> None, langs |-> <<>>]

create_session(t) == [t EXCEPT !.session = <<"session">>]

\* env.post is the outcome of the token POST ("ok", or "fail" for a failed
\* request or a response without 'access_token'); the token is named by the
\* minute it was issued.  Elapsed time is charged to the GET requests.
get_access_token(t, force, env, at) ==
    LET t1 == IF ~Truthy(t.session) \/ force THEN create_session(t) ELSE t
        req == [url |-> oauth_url, to |-> "", bearer |-> None, at |-> at]
    IN  IF env.post = "fail"
        THEN [trans |-> t1, raised |-> "AuthError", retval |-> Str(<<>>),
              elapsed |-> 0, requests |-> <<req>>]
        ELSE [trans |-> [t1 EXCEPT !.access_token = Token(at)],
              raised |-> NoError, retval |-> Str(<<>>),
              elapsed |-> 0, requests |-> <<req>>]

\* call, with the ArgumentException branch leaving the token in place
call_keeps_token(t, url, params, env, at) ==
    LET a == IF ~Truthy(t.access_token)
             THEN get_access_token(t, FALSE, env, at)
             ELSE [trans |-> t, raised |-> NoError, retval |-> Str(<<>>),
                   elapsed |-> 0, requests |-> <<>>]
    IN  IF a.raised # NoError THEN a
        ELSE
        LET t2 == IF ~Truthy(a.trans.session) THEN create_session(a.trans)
                  ELSE a.trans
            req == [url |-> url, to |-> params.to, bearer |-> t2.access_token,
                    at |-> at + a.elapsed]
            retval == Respond(url, params.text, env.kind, env.langs)
            out == [trans |-> t2, raised |-> NoError, retval |-> retval,
                    elapsed |-> a.elapsed + env.dget,
                    requests |-> a.requests \o <<req>>]
        IN  IF retval.type = "str" /\ Len(retval.val) > 0
                                   /\ retval.val[1] \in ErrorPrefixes
            THEN [out EXCEPT !.raised = retval.val[1]]
            ELSE out

call(t, url, params, env, at) ==
    LET a == IF ~Truthy(t.access_token)
             THEN get_access_token(t, FALSE, env, at)
             ELSE [trans |-> t, raised |-> NoError, retval |-> Str(<<>>),
                   elapsed |-> 0, requests |-> <<>>]
    IN  IF a.raised # NoError THEN a
        ELSE
        LET t2 == IF ~Truthy(a.trans.session) THEN create_session(a.trans)
                  ELSE a.trans
            req == [url |-> url, to |-> params.to, bearer |-> t2.access_token,
                    at |-> at + a.elapsed]
            retval == Respond(url, params.text, env.kind, env.langs)
            out == [trans |-> t2, raised |-> NoError, retval |-> retval,
                    elapsed |-> a.elapsed + env.dget,
                    requests |-> a.requests \o <<req>>]
            isstr == retval.type = "str"
        IN  IF isstr /\ startswith(retval.val, "ArgumentOutOfRangeException")
            THEN [out EXCEPT !.raised = "ArgumentOutOfRangeException"]
            ELSE IF isstr /\ startswith(retval.val, "TranslateApiException")
            THEN [out EXCEPT !.raised = "TranslateApiException"]
            ELSE IF isstr /\ startswith(retval.val, "ArgumentException")
            THEN [out EXCEPT !.raised = "ArgumentException",
                             !.trans = [t2 EXCEPT !.access_token = None]]
            ELSE out

languages(t, env, at) ==
    LET t1 == IF ~Truthy(t.session) THEN create_session(t) ELSE t
    IN  IF ~Truthy(t1.langs)
        THEN LET r == call(t1, lang_url, [text |-> <<>>, to |-> ""], env, at)
             IN  IF r.raised # NoError THEN r
                 ELSE [r EXCEPT !.trans = [r.trans EXCEPT !.langs = r.retval.val],
                                !.retval = List(r.retval.val)]
        ELSE [trans |-> t1, raised |-> NoError, retval |-> List(t1.langs),
              elapsed |-> 0, requests |-> <<>>]

translate(t, text, to_lang, env, at) ==
    call(t, translate_url, [text |-> text, to |-> to_lang], env, at)

\* A dict is a function from its keys; json.dumps gives a text, here the
\* sequence of its tokens, the keys taken in the order of OptionKeys.
PyNone == [type |-> "NoneType", val |-> <<>>]
PyDict(d) == [type |-> "dict", val |-> d]

OptionKeys == <<"Category", "Contenttype", "Uri", "User", "State">>
OptionDefaults ==
    [k \in {OptionKeys[i] : i \in DOMAIN OptionKeys} |->
        CASE k = "Category" -> "general"
          [] k = "Contenttype" -> "text/plain"
          [] k = "User" -> "default"
          [] OTHER -> ""]

\* d.update(other): d is changed in place, the call itself evaluates to None
dict_update(d, other) ==
    [dict |-> PyDict([k \in DOMAIN d \cup DOMAIN other |->
                        IF k \in DOMAIN other THEN other[k] ELSE d[k]]),
     result |-> PyNone]

RECURSIVE dumps_items(_, _)
dumps_items(d, keys) ==
    IF keys = <<>> THEN <<>>
    ELSE (IF Head(keys) \in DOMAIN d THEN <<Head(keys), d[Head(keys)]>> ELSE <<>>)
         \o dumps_items(d, Tail(keys))

dumps(v) ==
    IF v.type = "NoneType" THEN <<"null">>
    ELSE <<"{">> \o dumps_items(v.val, OptionKeys) \o <<"}">>

\* lines 221-232: the options name is bound to what update returned
translate_array_params(texts, to_lang, options) ==
    LET options1 == dict_update(OptionDefaults, options).result
    IN  [text |-> texts, to |-> to_lang, options |-> dumps(options1)]

translate_array(t, texts, to_lang, options, env, at) ==
    call(t, translate_array_url, translate_array_params(texts, to_lang, options),
         env, at)

\* ------------------------------------------------------------- process
languages_bidi == {"he", "ar", "fa", "yi"}

\* process with the sentry test and the renewal ahead of the right-to-left test
process_renews_before_skip(translator, raw_entry, language, sentry, env, at) ==
    LET found == findall(raw_entry)
        renew == at >= sentry
        g == IF renew THEN get_access_token(translator, TRUE, env, at)
             ELSE [trans |-> translator, raised |-> NoError,
                   retval |-> Str(<<>>), elapsed |-> 0, requests |-> <<>>]
        sentry1 == IF renew THEN at + g.elapsed + RenewalMinutes ELSE sentry
        mid == [trans |-> g.trans, raised |-> g.raised, value |-> None,
                elapsed |-> g.elapsed, requests |-> g.requests,
                renewed |-> renew, renewedAt |-> IF renew THEN at + g.elapsed ELSE 0,
                sentry |-> sentry1]
    IN  IF g.raised # NoError THEN [mid EXCEPT !.sentry = sentry]
        ELSE IF Truthy(found) /\ language \in languages_bidi THEN mid
        ELSE
        LET masked == IF Truthy(found) THEN first_pass(found, raw_entry)
                      ELSE raw_entry
            r == translate(g.trans, masked, language, env, at + g.elapsed)
            new_entry == IF r.raised # NoError THEN None
                         ELSE IF Truthy(found)
                         THEN second_pass(found, r.retval.val)
                         ELSE r.retval.val
        IN  [mid EXCEPT !.trans = r.trans, !.raised = r.raised,
                        !.value = new_entry,
                        !.elapsed = g.elapsed + r.elapsed,
                        !.requests = g.requests \o r.requests]

\* The result carries the function's own `sentry` as it stands on return:
\* the name is rebound inside process only, the caller's is untouched.
process(translator, raw_entry, language, sentry, env, at) ==
    LET found == findall(raw_entry)
        base == [trans |-> translator, raised |-> NoError, value |-> None,
                 elapsed |-> 0, requests |-> <<>>, renewed |-> FALSE,
                 renewedAt |-> 0, sentry |-> sentry]
    IN  IF Truthy(found) /\ language \in languages_bidi THEN base
        ELSE
        LET masked == IF Truthy(found) THEN first_pass(found, raw_entry)
                      ELSE raw_entry
            renew == at >= sentry
            g == IF renew THEN get_access_token(translator, TRUE, env, at)
                 ELSE [trans |-> translator, raised |-> NoError,
                       retval |-> Str(<<>>), elapsed |-> 0, requests |-> <<>>]
            mid == [base EXCEPT !.trans = g.trans, !.elapsed = g.elapsed,
                                !.requests = g.requests, !.renewed = renew]
        IN  IF g.raised # NoError THEN [mid EXCEPT !.raised = g.raised]
            ELSE
            LET sentry1 == IF renew THEN at + g.elapsed + RenewalMinutes
                           ELSE sentry
                r == translate(g.trans, masked, language, env, at + g.elapsed)
                new_entry == IF r.raised # NoError THEN None
                             ELSE IF Truthy(found)
                             THEN second_pass(found, r.retval.val)
                             ELSE r.retval.val
            IN  [trans |-> r.trans, raised |-> r.raised, value |-> new_entry,
                 elapsed |-> g.elapsed + r.elapsed,
                 requests |-> g.requests \o r.requests, renewed |-> renew,
                 renewedAt |-> IF renew THEN at + g.elapsed ELSE 0,
                 sentry |-> sentry1]

\* ------------------------------------------------------------- catalogs
PluralKeys == {"0", "1"}
Entry(msgid, msgid_plural) ==
    [msgid |-> msgid, msgid_plural |-> msgid_plural, msgstr |-> <<>>,
     msgstr_plural |-> [k \in PluralKeys |-> <<>>]]

\* The untranslated entries a catalog can hold: plain or placeholder-bearing
\* source text, with or without a plural form.
EntryKinds == {Entry(<<"Save">>, <<>>),
               Entry(<<"Hi", "%(name)s">>, <<>>),
               Entry(<<"{{n}}", "files">>, <<"Files">>),
               Entry(<<"Files">>, <<"{{n}}", "files">>)}

RECURSIVE SeqsUpTo(_, _)
SeqsUpTo(S, n) ==
    IF n = 0 THEN {<<>>}
    ELSE LET shorter == SeqsUpTo(S, n - 1)
         IN  shorter \cup {Append(s, x) : s \in {q \in shorter : Len(q) = n - 1},
                                          x \in S}

Catalogs == SeqsUpTo(EntryKinds, MaxEntries)

DirLangs == {"en", "he", "zh"}
Paths == {<<"locale", l, "LC_MESSAGES", "app.po">> : l \in DirLangs}
LangLists == {<<"en", "he", "zh">>, <<>>}
SourceLangs == {"en", "zh"}

dirname(path) == IF Len(path) <= 1 THEN <<>> ELSE SubSeq(path, 1, Len(path) - 1)
basename(path) == IF path = <<>> THEN "" ELSE path[Len(path)]
get_lang(filename) == basename(dirname(dirname(filename)))

InList(x, l) == \E i \in 1..Len(l) : l[i] = x

\* ---------------------------------------------------------------- state
VARIABLES
    nFiles,        \* __main__: how many catalog paths the walk found
    filename,      \* createps: the path of the current file, pofiles[fileIdx]
    default_lang,  \* __main__: opts.source_lang
    fileIdx,       \* __main__: index of the file createps is (was last) run on
    pc,            \* where control is: walk, eligibility, loop, plural, ...
    trans,         \* createps: the Translator of the current file
    pobj,          \* createps: the untranslated entries of the loaded catalog
    lang,          \* createps: the target language
    sentry,        \* createps: the renewal deadline
    entryIdx,      \* createps: position of the entry loop (0: not entered)
    msgstr,        \* createps: the singular translation just returned
    do_save,       \* createps: the save flag
    now,           \* the clock: minutes since createps was entered for this file
    disk,          \* per file: how many times pobj.save wrote it
    log,           \* history: the entries of this file whose body has ended
    lastCall,      \* history: the latest languages / process / client call
    prevRaised,    \* history: what the call before the latest raised
    fetches,       \* client driver: the lists the languages endpoint answered with
    ops,           \* client driver: calls made so far
    thestring,     \* guard driver: the text handed to first_pass
    items,         \* guard driver: its placeholder matches
    masked,        \* guard driver: what first_pass returned
    translated,    \* guard driver: the translation handed to second_pass
    restored       \* guard driver: what second_pass returned

guardVars == <<thestring, items, masked, translated, restored>>

vars == <<nFiles, filename, default_lang, fileIdx, pc, trans, pobj, lang, sentry,
          entryIdx, msgstr, do_save, now, disk, log, lastCall, prevRaised, ops,
          fetches, guardVars>>

NoCall == [op |-> "none", at |-> 0, sentry |-> 0, renewed |-> FALSE,
           renewedAt |-> 0, raised |-> NoError, requests |-> <<>>,
           before |-> Translator, value |-> None, text |-> <<>>,
           options |-> <<>>, sent |-> <<>>]

PostOutcomes == {"ok", "fail"}

LangEnvs ==
    {e \in [post : PostOutcomes,
            kind : {"ok"} \cup ErrorPrefixes, langs : LangLists,
            dget : Latency] :
        /\ e.post = "fail" => (e.kind = "ok" /\ e.dget = 0)
        /\ (e.post = "fail" \/ e.kind # "ok") => e.langs = <<>>}

ProcEnvs(renew) ==
    {e \in [post : IF renew THEN PostOutcomes ELSE {"ok"},
            kind : WalkKinds, langs : {<<>>}, dget : Latency] :
        e.post = "fail" => (e.kind = "ok" /\ e.dget = 0)}

\* What a call added to the answers of the languages endpoint.
Fetched(r) ==
    IF r.raised = NoError /\ \E i \in 1..Len(r.requests) : r.requests[i].url = lang_url
    THEN <<r.retval.val>>
    ELSE <<>>

\* Nothing of createps is running.
NoCreateps ==
    /\ filename = <<>>
    /\ fileIdx = 0
    /\ trans = Translator
    /\ pobj = <<>>
    /\ lang = ""
    /\ sentry = 0
    /\ entryIdx = 0
    /\ msgstr = None
    /\ do_save = FALSE
    /\ now = 0
    /\ log = <<>>
    /\ lastCall = NoCall

NoClient == prevRaised = NoError /\ ops = 0 /\ fetches = <<>>

NoGuard ==
    /\ thestring = <<>>
    /\ items = <<>>
    /\ masked = <<>>
    /\ translated = <<>>
    /\ restored = <<>>

Init ==
    /\ nFiles = MaxFiles
    /\ default_lang \in SourceLangs
    /\ pc = "walk"
    /\ disk = [f \in 1..nFiles |-> 0]
    /\ NoCreateps
    /\ NoClient
    /\ NoGuard

\* ------------------------------------------------------------- createps
\* the inner except clause, catching ArgumentException as well
Recoverable_catches_all == {"TranslateApiException", "ArgumentOutOfRangeException",
                            "ArgumentException"}

\* the inner except clause, catching TranslateApiException alone
Recoverable_catches_one == {"TranslateApiException"}

Recoverable == {"TranslateApiException", "ArgumentOutOfRangeException"}
FatalForFile == {"ArgumentException"}

\* lines 295-299: a new client, the catalog parsed, the language derived
CreatepsBegin ==
    /\ pc = "walk"
    /\ fileIdx < nFiles
    /\ filename' \in Paths
    /\ lang' = get_lang(filename')
    /\ now' = 0
    /\ fileIdx' = fileIdx + 1
    /\ do_save' = FALSE
    /\ trans' = Translator
    /\ pobj' \in Catalogs
    /\ sentry' = 0
    /\ entryIdx' = 0
    /\ msgstr' = None
    /\ log' = <<>>
    /\ lastCall' = NoCall
    /\ pc' = "eligibility"
    /\ UNCHANGED <<nFiles, default_lang, disk, prevRaised, ops, fetches, guardVars>>

\* the eligibility test without its exception for "zh"
Skipped_no_zh(l, langs, source) == ~InList(l, langs) \/ l = source

\* the eligibility test without the comparison with the source language
Skipped_ignores_source(l, langs, source) == ~InList(l, langs) /\ l # "zh"

Skipped(l, langs, source) == (~InList(l, langs) \/ l = source) /\ l # "zh"

Remap(l) == IF l = "zh" THEN "zh-CHS" ELSE l

\* lines 302-310: the languages call, the eligibility test, the sentry
Eligibility ==
    /\ pc = "eligibility"
    /\ \E env \in LangEnvs :
        LET r == languages(trans, env, now)
        IN  /\ now + r.elapsed <= MaxTime
            /\ now' = now + r.elapsed
            /\ trans' = r.trans
            /\ lastCall' = [NoCall EXCEPT !.op = "languages", !.at = now,
                                !.raised = r.raised, !.requests = r.requests,
                                !.before = trans]
            /\ IF r.raised # NoError
               THEN /\ pc' = "crashed"
                    /\ UNCHANGED <<lang, sentry, entryIdx>>
               ELSE IF Skipped(lang, r.retval.val, default_lang)
               THEN /\ pc' = "returned"
                    /\ UNCHANGED <<lang, sentry, entryIdx>>
               ELSE /\ pc' = "loop"
                    /\ sentry' = now + r.elapsed + RenewalMinutes
                    /\ lang' = Remap(lang)
                    /\ entryIdx' = 1
    /\ UNCHANGED <<nFiles, filename, default_lang, fileIdx, pobj, msgstr, do_save, disk,
                   log, prevRaised, ops, fetches, guardVars>>

CallRecord(r, raw_entry) ==
    [op |-> "process", at |-> now, sentry |-> sentry, renewed |-> r.renewed,
     renewedAt |-> r.renewedAt, raised |-> r.raised, requests |-> r.requests,
     before |-> trans, value |-> r.value, text |-> raw_entry,
     options |-> <<>>, sent |-> <<>>]

\* What an exception raised in the body of the entry loop leads to.
Handle(exc, first) ==
    IF exc \in Recoverable
    THEN /\ pc' = "loop"
         /\ entryIdx' = entryIdx + 1
         /\ log' = Append(log, [idx |-> entryIdx, raised |-> exc,
                                first |-> first, second |-> None])
    ELSE IF exc \in FatalForFile
    THEN /\ pc' = "returned"
         /\ log' = Append(log, [idx |-> entryIdx, raised |-> exc,
                                first |-> first, second |-> None])
         /\ UNCHANGED entryIdx
    ELSE /\ pc' = "crashed"
         /\ UNCHANGED <<entryIdx, log>>

\* lines 311-316, 321-326: the entry's msgid is processed
EntrySingular ==
    /\ pc = "loop"
    /\ entryIdx <= Len(pobj)
    /\ \E env \in ProcEnvs(now >= sentry) :
        LET entry == pobj[entryIdx]
            r == process(trans, entry.msgid, lang, sentry, env, now)
        IN  /\ now + r.elapsed <= MaxTime
            /\ now' = now + r.elapsed
            /\ trans' = r.trans
            /\ lastCall' = CallRecord(r, entry.msgid)
            /\ IF r.raised # NoError
               THEN /\ Handle(r.raised, None)
                    /\ UNCHANGED <<pobj, msgstr, do_save>>
               ELSE IF Truthy(entry.msgid_plural)
               THEN /\ msgstr' = r.value
                    /\ pobj' = IF Truthy(r.value)
                               THEN [pobj EXCEPT ![entryIdx].msgstr_plural["0"] = r.value]
                               ELSE pobj
                    /\ pc' = "plural"
                    /\ UNCHANGED <<entryIdx, do_save, log>>
               ELSE /\ msgstr' = r.value
                    /\ pobj' = IF Truthy(r.value)
                               THEN [pobj EXCEPT ![entryIdx].msgstr = r.value]
                               ELSE pobj
                    /\ do_save' = TRUE
                    /\ pc' = "loop"
                    /\ entryIdx' = entryIdx + 1
                    /\ log' = Append(log, [idx |-> entryIdx, raised |-> NoError,
                                           first |-> r.value, second |-> None])
    /\ UNCHANGED <<nFiles, filename, default_lang, fileIdx, lang, sentry, disk,
                   prevRaised, ops, fetches, guardVars>>

\* the plural step with do_save set in the except clause as well
EntryPlural_saves_on_error ==
    /\ pc = "plural"
    /\ \E env \in ProcEnvs(now >= sentry) :
        LET entry == pobj[entryIdx]
            r == process(trans, entry.msgid_plural, lang, sentry, env, now)
        IN  /\ now + r.elapsed <= MaxTime
            /\ now' = now + r.elapsed
            /\ trans' = r.trans
            /\ lastCall' = CallRecord(r, entry.msgid_plural)
            /\ IF r.raised # NoError
               THEN /\ Handle(r.raised, msgstr)
                    /\ do_save' = TRUE
                    /\ UNCHANGED pobj
               ELSE /\ pobj' = IF Truthy(r.value)
                               THEN [pobj EXCEPT ![entryIdx].msgstr_plural["1"] = r.value]
                               ELSE pobj
                    /\ do_save' = TRUE
                    /\ pc' = "loop"
                    /\ entryIdx' = entryIdx + 1
                    /\ log' = Append(log, [idx |-> entryIdx, raised |-> NoError,
                                           first |-> msgstr, second |-> r.value])
    /\ UNCHANGED <<nFiles, filename, default_lang, fileIdx, lang, sentry, msgstr, disk,
                   prevRaised, ops, fetches, guardVars>>

\* lines 317-320, 324-326: the entry's msgid_plural is processed
EntryPlural ==
    /\ pc = "plural"
    /\ \E env \in ProcEnvs(now >= sentry) :
        LET entry == pobj[entryIdx]
            r == process(trans, entry.msgid_plural, lang, sentry, env, now)
        IN  /\ now + r.elapsed <= MaxTime
            /\ now' = now + r.elapsed
            /\ trans' = r.trans
            /\ lastCall' = CallRecord(r, entry.msgid_plural)
            /\ IF r.raised # NoError
               THEN /\ Handle(r.raised, msgstr)
                    /\ UNCHANGED <<pobj, do_save>>
               ELSE /\ pobj' = IF Truthy(r.value)
                               THEN [pobj EXCEPT ![entryIdx].msgstr_plural["1"] = r.value]
                               ELSE pobj
                    /\ do_save' = TRUE
                    /\ pc' = "loop"
                    /\ entryIdx' = entryIdx + 1
                    /\ log' = Append(log, [idx |-> entryIdx, raised |-> NoError,
                                           first |-> msgstr, second |-> r.value])
    /\ UNCHANGED <<nFiles, filename, default_lang, fileIdx, lang, sentry, msgstr, disk,
                   prevRaised, ops, fetches, guardVars>>

\* the save taken as soon as do_save is set, the loop not yet over
Persist_before_loop_ends ==
    /\ pc = "loop"
    /\ do_save
    /\ disk' = [disk EXCEPT ![fileIdx] = @ + 1]
    /\ pc' = "returned"
    /\ UNCHANGED <<nFiles, filename, default_lang, fileIdx, trans, pobj, lang, sentry,
                   entryIdx, msgstr, do_save, now, log, lastCall, prevRaised, ops, fetches, guardVars>>

\* the save taken only if an entry holds a translation
Persist_if_mutated ==
    /\ pc = "loop"
    /\ entryIdx > Len(pobj)
    /\ disk' = IF \E i \in 1..Len(pobj) :
                      \/ pobj[i].msgstr # <<>>
                      \/ \E k \in PluralKeys : pobj[i].msgstr_plural[k] # <<>>
               THEN [disk EXCEPT ![fileIdx] = @ + 1] ELSE disk
    /\ pc' = "returned"
    /\ UNCHANGED <<nFiles, filename, default_lang, fileIdx, trans, pobj, lang, sentry,
                   entryIdx, msgstr, do_save, now, log, lastCall, prevRaised, ops,
                   fetches, guardVars>>

\* lines 328-331: the loop is over; the catalog is written if do_save
Persist ==
    /\ pc = "loop"
    /\ entryIdx > Len(pobj)
    /\ disk' = IF do_save THEN [disk EXCEPT ![fileIdx] = @ + 1] ELSE disk
    /\ pc' = "returned"
    /\ UNCHANGED <<nFiles, filename, default_lang, fileIdx, trans, pobj, lang, sentry,
                   entryIdx, msgstr, do_save, now, log, lastCall, prevRaised, ops, fetches, guardVars>>

\* What createps held is dropped: on its return, or when the process ends.
Forget ==
    /\ filename' = <<>>
    /\ trans' = Translator
    /\ pobj' = <<>>
    /\ lang' = ""
    /\ sentry' = 0
    /\ entryIdx' = 0
    /\ msgstr' = None
    /\ do_save' = FALSE
    /\ now' = 0
    /\ log' = <<>>
    /\ lastCall' = NoCall

\* lines 304, 331, 333: createps returns to the list comprehension
CreatepsReturn ==
    /\ pc = "returned"
    /\ pc' = "walk"
    /\ Forget
    /\ UNCHANGED <<nFiles, default_lang, fileIdx, disk, prevRaised, ops, fetches, guardVars>>

\* lines 365-366: the list of files is exhausted and the process ends
Finish ==
    /\ pc = "walk"
    /\ fileIdx = nFiles
    /\ pc' = "exit"
    /\ UNCHANGED <<nFiles, filename, default_lang, fileIdx, trans, pobj, lang,
                   sentry, entryIdx, msgstr, do_save, now, disk, log, lastCall,
                   prevRaised, ops, fetches, guardVars>>

\* line 367: KeyboardInterrupt, wherever the run is.
\* The process ends: what createps held in memory is gone, the disk stays.
Interrupt ==
    /\ pc \in {"walk", "eligibility", "loop", "plural", "returned"}
    /\ pc' = "interrupted"
    /\ Forget
    /\ UNCHANGED <<nFiles, default_lang, fileIdx, disk, prevRaised, ops, fetches, guardVars>>

Next ==
    \/ CreatepsBegin
    \/ Eligibility
    \/ EntrySingular
    \/ EntryPlural
    \/ Persist
    \/ CreatepsReturn
    \/ Finish
    \/ Interrupt

Spec == Init /\ [][Next]_vars

\* ------------------------------------------------ properties of the walk
Mutated(entry) ==
    \/ entry.msgstr # <<>>
    \/ \E k \in PluralKeys : entry.msgstr_plural[k] # <<>>

TranslateRequests == {i \in 1..Len(lastCall.requests) :
                        lastCall.requests[i].url = translate_url}

TokenAge(req) == req.at - req.bearer[2]

RecoverableErrors == {"TranslateApiException", "ArgumentOutOfRangeException"}

\* C1: a catalog file is written back only if at least one entry's msgstr or
\* msgstr_plural slot was changed during that file's entry loop.
C1_SavedOnlyIfMutated ==
    (pc = "returned" /\ disk[fileIdx] > 0) =>
        \E i \in 1..Len(pobj) : Mutated(pobj[i])

\* C2: before a translate call the token is renewed if and only if the clock
\* has reached the sentry, and after a renewal the sentry of the run stands at
\* the renewal instant plus 8 minutes.
C2_SentryAdvances ==
    (lastCall.op = "process" /\ lastCall.requests # <<>>) =>
        /\ lastCall.renewed <=> lastCall.at >= lastCall.sentry
        /\ (lastCall.renewed /\ lastCall.raised # "AuthError") =>
               sentry = lastCall.renewedAt + RenewalMinutes

\* C3: no translate request carries a token older than the 10 minutes it is
\* valid for, unless a renewal was attempted before the request.
C3_NoStaleToken ==
    \A i \in TranslateRequests :
        \/ TokenAge(lastCall.requests[i]) <= ValidityMinutes
        \/ lastCall.renewed

\* C5: a TranslateApiException or ArgumentOutOfRangeException ends only the
\* entry it was raised for: the loop goes on to the next entry, the entries are
\* attempted in order, every entry that did not fail holds the translations
\* returned for it, and the file is saved if one entry succeeded.
C5_LoopContinues ==
    /\ \A k \in 1..Len(log) : log[k].idx = k
    /\ (lastCall.op = "process" /\ lastCall.raised \in RecoverableErrors) =>
          /\ pc \in {"loop", "returned"}
          /\ entryIdx = Len(log) + 1
          /\ log[Len(log)].raised = lastCall.raised
    /\ ( /\ pc = "returned"
         /\ entryIdx >= 1
         /\ \A k \in 1..Len(log) :
                log[k].raised \in RecoverableErrors \cup {NoError} ) =>
          /\ Len(log) = Len(pobj)
          /\ \A k \in 1..Len(log) :
                log[k].raised = NoError =>
                    IF Truthy(pobj[k].msgid_plural)
                    THEN /\ Truthy(log[k].first) =>
                              pobj[k].msgstr_plural["0"] = log[k].first
                         /\ Truthy(log[k].second) =>
                              pobj[k].msgstr_plural["1"] = log[k].second
                    ELSE Truthy(log[k].first) => pobj[k].msgstr = log[k].first
          /\ (\E k \in 1..Len(log) : log[k].raised = NoError) =>
                disk[fileIdx] = 1

C5_Witness ==
    /\ pc = "returned"
    /\ Len(log) = 2
    /\ log[1].raised = "TranslateApiException"
    /\ log[2].raised = NoError
    /\ pobj[2].msgstr # <<>>
    /\ disk[fileIdx] = 1

\* C6: an ArgumentException raised in the entry loop ends the file at once: no
\* later entry is attempted, no further call is made for the file, and the file
\* is not saved, whatever was already translated in memory.
C6_ArgumentExceptionAborts ==
    (lastCall.op = "process" /\ lastCall.raised = "ArgumentException") =>
        /\ pc = "returned"
        /\ Len(log) = entryIdx
        /\ log[Len(log)].raised = "ArgumentException"
        /\ disk[fileIdx] = 0

C6_Witness ==
    /\ lastCall.op = "process"
    /\ lastCall.raised = "ArgumentException"
    /\ entryIdx = 2
    /\ do_save
    /\ Mutated(pobj[1])
    /\ disk[fileIdx] = 0

\* C7: whatever the API answers, the walk ends only when every file of the
\* list has been handed to createps, or on a user interrupt.
C7_WalkNeverDies ==
    pc \in {"exit", "crashed"} => fileIdx = nFiles

\* C8: for a right-to-left target language, an entry whose msgid holds a
\* placeholder has neither its msgstr nor any msgstr_plural slot set.
C8_BidiEntryUntouched ==
    lang \in languages_bidi =>
        \A i \in 1..Len(pobj) :
            Truthy(findall(pobj[i].msgid)) => ~Mutated(pobj[i])

\* C9: a file whose derived language is "zh" is never skipped by the
\* eligibility check, and every translate request for it asks for "zh-CHS".
C9_ChineseRemapped ==
    get_lang(filename) = "zh" =>
        /\ ~(pc = "returned" /\ entryIdx = 0)
        /\ \A i \in TranslateRequests : lastCall.requests[i].to = "zh-CHS"

C9_Witness ==
    /\ get_lang(filename) = "zh"
    /\ default_lang = "zh"
    /\ ~InList("zh", trans.langs)
    /\ TranslateRequests # {}
    /\ \E i \in 1..Len(pobj) : Mutated(pobj[i])

LoopInProgress ==
    \/ pc = "plural"
    \/ pc = "loop" /\ entryIdx <= Len(pobj)

\* C14: a file is written at most once, and only when the loop has attempted
\* every untranslated entry of it; a step that leaves the loop while it is in
\* progress (interrupt, ArgumentException, uncaught exception) writes nothing
\* and leaves the file as it was.
C14_SaveOnceAfterLoop ==
    [][ /\ disk' # disk =>
              /\ pc = "loop"
              /\ entryIdx > Len(pobj)
              /\ Len(log) = Len(pobj)
              /\ disk[fileIdx] = 0
              /\ disk' = [disk EXCEPT ![fileIdx] = 1]
        /\ (LoopInProgress /\ pc' \in {"interrupted", "crashed", "returned"}) =>
              /\ disk' = disk
              /\ disk[fileIdx] = 0 ]_vars

C14_Witness ==
    /\ pc = "crashed"
    /\ Len(pobj) = 2
    /\ entryIdx = 2
    /\ do_save
    /\ Mutated(pobj[1])
    /\ disk[fileIdx] = 0

\* C16: the client of a file is the client of the file before it: when the
\* file before was saved (its client held a token that nothing invalidated),
\* the first call made for the next file issues no new token.
C16_OneClientPerRun ==
    ( /\ lastCall.op = "languages"
      /\ fileIdx >= 2
      /\ disk[fileIdx - 1] = 1 ) =>
        \A i \in 1..Len(lastCall.requests) : lastCall.requests[i].url # oauth_url

\* Some entry of the current file went through the loop body without raising.
EntryCompleted == \E k \in 1..Len(log) : log[k].raised = NoError

\* C17: when createps returns from an eligible file, the file has been saved
\* if and only if no ArgumentException was raised for it and some entry went
\* through the loop body without raising, whether or not it got a non-empty
\* translation; do_save is set exactly when such an entry exists and is not
\* cleared while the file is being processed.
C17_SavedIffEntryCompleted ==
    /\ [](do_save <=> EntryCompleted)
    /\ []((pc = "returned" /\ entryIdx >= 1) =>
            (disk[fileIdx] = 1 <=>
                /\ EntryCompleted
                /\ \A k \in 1..Len(log) : log[k].raised # "ArgumentException"))
    /\ [][(do_save /\ pc' \notin {"walk", "interrupted"}) => do_save']_vars

C17_Witness ==
    /\ pc = "returned"
    /\ disk[fileIdx] = 1
    /\ Len(pobj) = 1
    /\ log[1].first = None
    /\ ~Mutated(pobj[1])

\* C18: when the msgid of a plural entry was translated and the call for its
\* msgid_plural raised TranslateApiException or ArgumentOutOfRangeException,
\* slot 0 holds the singular translation, slot 1 and msgstr stay unset, and
\* the entry does not set do_save: the file is saved only if another entry
\* went through the loop body.
C18_HalfFilledPlural ==
    /\ \A k \in 1..Len(log) :
          ( /\ Truthy(pobj[k].msgid_plural)
            /\ log[k].raised \in RecoverableErrors
            /\ Truthy(log[k].first) ) =>
              /\ pobj[k].msgstr_plural["0"] = log[k].first
              /\ pobj[k].msgstr_plural["1"] = <<>>
              /\ pobj[k].msgstr = <<>>
    /\ (do_save \/ (filename # <<>> /\ disk[fileIdx] > 0)) =>
          \E k \in 1..Len(log) : log[k].raised = NoError

C18_Witness ==
    /\ pc = "returned"
    /\ Len(pobj) = 1
    /\ Len(log) = 1
    /\ log[1].raised = "ArgumentOutOfRangeException"
    /\ Truthy(log[1].first)
    /\ pobj[1].msgstr_plural["0"] = log[1].first
    /\ disk[fileIdx] = 0

\* C19: a process call that skips a placeholder-bearing string for a
\* right-to-left language returns None without renewing the token, without
\* any request and without taking time, and leaves the client as it was,
\* also when the sentry has passed.
C19_BidiSkipNoEffect ==
    ( /\ lastCall.op = "process"
      /\ lang \in languages_bidi
      /\ Truthy(findall(lastCall.text)) ) =>
        /\ lastCall.value = None
        /\ lastCall.raised = NoError
        /\ ~lastCall.renewed
        /\ lastCall.requests = <<>>
        /\ trans = lastCall.before
        /\ now = lastCall.at

C19_Witness ==
    /\ lastCall.op = "process"
    /\ lang \in languages_bidi
    /\ Truthy(findall(lastCall.text))
    /\ lastCall.at >= lastCall.sentry
    /\ Truthy(trans.access_token)
    /\ lastCall.value = None

\* -------------------------------------------- the Translator on its own
\* Any sequence of calls on one Translator; the call number is its clock.
ClientTexts == {<<"Save">>, <<"Hi", SENTINEL>>}
ClientLangLists == LangLists \cup {<<"he">>}

ClientEnvs(kinds, lists) ==
    [post : PostOutcomes, kind : kinds, langs : lists, dget : {0}]

InitClient ==
    /\ pc = "client"
    /\ nFiles = 0
    /\ default_lang = "en"
    /\ disk = <<>>
    /\ NoCreateps
    /\ NoClient
    /\ NoGuard

ClientStep(op, r, options, sent) ==
    /\ pc = "client"
    /\ ops < MaxOps
    /\ ops' = ops + 1
    /\ trans' = r.trans
    /\ prevRaised' = lastCall.raised
    /\ fetches' = fetches \o Fetched(r)
    /\ lastCall' = [NoCall EXCEPT !.op = op, !.at = ops, !.raised = r.raised,
                        !.requests = r.requests, !.before = trans,
                        !.options = options, !.sent = sent]
    /\ UNCHANGED <<nFiles, filename, default_lang, fileIdx, pc, pobj, lang,
                   sentry, entryIdx, msgstr, do_save, now, disk, log, guardVars>>

ClientGetAccessToken ==
    \E force \in BOOLEAN, env \in ClientEnvs({"ok"}, {<<>>}) :
        ClientStep("get_access_token", get_access_token(trans, force, env, ops),
                   <<>>, <<>>)

ClientLanguages ==
    \E env \in ClientEnvs({"ok"} \cup ErrorPrefixes, ClientLangLists) :
        ClientStep("languages", languages(trans, env, ops), <<>>, <<>>)

ClientTranslate ==
    \E text \in ClientTexts, env \in ClientEnvs(TranslateKinds, {<<>>}) :
        ClientStep("translate", translate(trans, text, "fr", env, ops), <<>>, <<>>)

\* The keyword arguments a caller passes: any subset of the option keys.
OptionOverrides ==
    [k \in {OptionKeys[i] : i \in DOMAIN OptionKeys} |->
        CASE k = "Category" -> "tech"
          [] k = "Contenttype" -> "text/html"
          [] k = "Uri" -> "http://example.org"
          [] k = "User" -> "me"
          [] OTHER -> "s1"]
CallerOptions == {[k \in S |-> OptionOverrides[k]] : S \in SUBSET DOMAIN OptionOverrides}

ClientTranslateArray ==
    \E options \in CallerOptions, env \in ClientEnvs({"ok"} \cup ErrorPrefixes, {<<>>}) :
        ClientStep("translate_array",
                   translate_array(trans, <<<<"Save">>>>, "fr", options, env, ops),
                   options,
                   translate_array_params(<<<<"Save">>>>, "fr", options).options)

NextClient ==
    \/ ClientGetAccessToken
    \/ ClientLanguages
    \/ ClientTranslate
    \/ ClientTranslateArray

SpecClient == InitClient /\ [][NextClient]_vars

\* The latest client call went through Translator.call.
CallInvoked ==
    \/ lastCall.op \in {"translate", "translate_array"}
    \/ lastCall.op = "languages" /\ ~Truthy(lastCall.before.langs)

\* C4: an "ArgumentException..." answer raises ArgumentException and leaves
\* access_token None, and the next call then posts for a new token before its
\* GET; the two other error answers raise and leave the cached token as it was.
C4_ArgumentExceptionDropsToken ==
    /\ lastCall.raised = "ArgumentException" => trans.access_token = None
    /\ lastCall.raised \in RecoverableErrors =>
          /\ Truthy(trans.access_token)
          /\ trans.access_token =
                 lastCall.requests[Len(lastCall.requests)].bearer
          /\ Truthy(lastCall.before.access_token) =>
                 trans.access_token = lastCall.before.access_token
    /\ (prevRaised = "ArgumentException" /\ CallInvoked) =>
          /\ lastCall.requests # <<>>
          /\ lastCall.requests[1].url = oauth_url
          /\ \A i \in 2..Len(lastCall.requests) :
                /\ lastCall.requests[i].url # oauth_url
                /\ lastCall.requests[i].bearer = Token(lastCall.at)

C4_Witness ==
    /\ prevRaised = "ArgumentException"
    /\ lastCall.op = "translate"
    /\ Len(lastCall.requests) = 2
    /\ lastCall.raised = "TranslateApiException"
    /\ trans.access_token = Token(lastCall.at)

\* C15: however often languages() is invoked on one Translator, the languages
\* endpoint answers at most once: the first list returned is the one every
\* later invocation returns, an empty list included.
C15_LanguagesFetchedOnce ==
    Len(fetches) <= 1

\* C11: the options object translate_array sends holds the caller's value for
\* every key the caller passed and the default for every other key.
C11_OptionsMerged ==
    (lastCall.op = "translate_array" /\ lastCall.raised # "AuthError") =>
        lastCall.sent =
            dumps(PyDict([k \in DOMAIN OptionDefaults |->
                            IF k \in DOMAIN lastCall.options
                            THEN lastCall.options[k] ELSE OptionDefaults[k]]))

\* ------------------------------------------- the placeholder guard on its own
Fragments == {"Hi", "%(name)s", "{{n}}", SENTINEL, LEGACY}
Texts == SeqsUpTo(Fragments, MaxLen)

InitGuard ==
    /\ pc = "guard"
    /\ thestring \in Texts
    /\ items = <<>>
    /\ masked = <<>>
    /\ translated = <<>>
    /\ restored = <<>>
    /\ nFiles = 0
    /\ default_lang = "en"
    /\ disk = <<>>
    /\ NoCreateps
    /\ NoClient

walkVars == <<nFiles, filename, default_lang, fileIdx, trans, pobj, lang,
              sentry, entryIdx, msgstr, do_save, now, disk, log, lastCall,
              prevRaised, ops, fetches>>

\* line 277: found = regex.findall(raw_entry)
GuardDetect ==
    /\ pc = "guard"
    /\ items' = findall(thestring)
    /\ pc' = "found"
    /\ UNCHANGED <<walkVars, thestring, masked, translated, restored>>

\* line 281: raw_entry = first_pass(found, raw_entry)
GuardMask ==
    /\ pc = "found"
    /\ masked' = first_pass(items, thestring)
    /\ pc' = "masked"
    /\ UNCHANGED <<walkVars, thestring, items, translated, restored>>

\* line 289: new_entry = second_pass(found, new_entry)
GuardUnmask ==
    /\ pc = "masked"
    /\ restored' = second_pass(items, masked)
    /\ pc' = "unmasked"
    /\ UNCHANGED <<walkVars, thestring, items, masked, translated>>

\* The texts the service can answer the masked text with: every fragment
\* translated, every sentinel kept as it is or returned re-spaced.
Translations(text) ==
    {t \in [1..Len(text) -> {Dict(f) : f \in Fragments} \cup {SENTINEL, LEGACY}] :
        \A i \in 1..Len(text) :
            IF text[i] = SENTINEL THEN t[i] \in {SENTINEL, LEGACY}
            ELSE t[i] = Dict(text[i])}

\* lines 287-289: the translation of the masked text is unmasked
GuardTranslate ==
    /\ pc = "masked"
    /\ translated' \in Translations(masked)
    /\ restored' = second_pass(items, translated')
    /\ pc' = "translated"
    /\ UNCHANGED <<walkVars, thestring, items, masked>>

NextGuard ==
    \/ GuardDetect
    \/ GuardMask
    \/ GuardUnmask
    \/ GuardTranslate

SpecGuard == InitGuard /\ [][NextGuard]_vars

\* C10: for every text, with any number of placeholders and with
\* sentinel-like fragments, second_pass(found, first_pass(found, s)) = s.
C10_RoundTrip ==
    pc = "unmasked" => restored = thestring

IsSentinel(frag) == frag \in {SENTINEL, LEGACY}

\* the text with its i-th sentinel, counted from the left, replaced by the
\* i-th placeholder of the list
RECURSIVE RestoreInOrder(_, _)
RestoreInOrder(found, text) ==
    IF text = <<>> THEN <<>>
    ELSE IF IsSentinel(Head(text)) /\ found # <<>>
    THEN <<Head(found)>> \o RestoreInOrder(Tail(found), Tail(text))
    ELSE <<Head(text)>> \o RestoreInOrder(found, Tail(text))

\* C13: when the translated text holds as many sentinels, of either form, as
\* there are placeholders, second_pass puts the i-th placeholder in the place
\* of the i-th sentinel from the left, each placeholder once.
C13_RestoredInOrder ==
    ( /\ pc = "translated"
      /\ Len(SelectSeq(translated, IsSentinel)) = Len(items) ) =>
        restored = RestoreInOrder(items, translated)

====
